---- MODULE Spec2Model ----
(***************************************************************************)
(* Student Performance Analytics dashboard (src/app/app.py).               *)
(*                                                                         *)
(* The Streamlit script is re-executed from top to bottom on every user    *)
(* interaction.  One action of this module is one interaction followed by  *)
(* the whole script run it triggers: load_data (memoized by                *)
(* st.cache_data), the sidebar filter block, and the four tabs.            *)
(***************************************************************************)
EXTENDS Integers, Sequences, FiniteSets, TLC

VARIABLES
    uploaded_file,      \* st.file_uploader value: "none" or the name of a file
    show_details,       \* st.checkbox "Show detailed statistics"
    ran,                \* the script has run at least once in this session
    cache,              \* st.cache_data store of load_data: key -> returned value
    s3_result,          \* per cache key, outcomes of the s3.get_object calls made for it
    s3_calls,           \* number of s3.get_object calls made so far
    io,                 \* I/O calls load_data made during the last script run
    data,               \* the Raw Dataset: value of `data` at the end of the run
    categorical_cols,   \* value of categorical_cols (line 74)
    filter_selections,  \* the dict built at lines 77-84, in insertion order
    filter_result,      \* filtered_data as it leaves the filter loop (line 90)
    filtered_data,      \* filtered_data at the end of the run
    correlations,       \* the list built at lines 273-276
    corr_df,            \* corr_df after line 279
    top_positive,       \* line 359
    top_negative,       \* line 360
    views,              \* what each view of the four tabs rendered
    messages,           \* st.info / st.warning texts of the sidebar and else-branch
    error,              \* unhandled exception that ended the run, or "none"
    score,              \* argument of categorize_performance
    category            \* its result

vars == <<uploaded_file, show_details, ran, cache, s3_result, s3_calls, io, data,
          categorical_cols, filter_selections, filter_result, filtered_data,
          correlations, corr_df, top_positive, top_negative, views, messages,
          error, score, category>>

----------------------------------------------------------------------------
(* Bounds of the model *)

\* s3.get_object calls after which no further interaction is explored
MaxS3Calls == 4
\* categorize_performance is applied to every integer score 0..MaxScore
MaxScore == 110
\* longest correlation list handed to the Key Insights block
MaxFactors == 4

----------------------------------------------------------------------------
(* Tables (pandas DataFrame) *)

\* The missing value of a numeric column (NaN); every real value is >= 0.
NaN == -1

\* data is None / filtered_data = None
NoneData == [isNone |-> TRUE, columns |-> <<>>, rows |-> <<>>]

Col(n, t) == [name |-> n, dtype |-> t]

Range(s) == {s[i] : i \in DOMAIN s}

ColumnNames(t) == {t.columns[i].name : i \in DOMAIN t.columns}

\* DataFrame.select_dtypes(include=kinds).columns.tolist()
RECURSIVE SelectDtypes(_, _)
SelectDtypes(cols, kinds) ==
    IF cols = <<>> THEN <<>>
    ELSE LET rest == SelectDtypes(Tail(cols), kinds)
         IN  IF Head(cols).dtype \in kinds THEN <<Head(cols).name>> \o rest
             ELSE rest

\* data[col].unique() as a set
Unique(t, col) == {t.rows[i].cells[col] : i \in DOMAIN t.rows}

\* pd.read_csv on a well-formed file: the records get the index 0..n-1
ReadCsv(file) ==
    [isNone  |-> FALSE,
     columns |-> file.columns,
     rows    |-> [i \in DOMAIN file.records |->
                     [index |-> i - 1, cells |-> file.records[i]]]]

----------------------------------------------------------------------------
(* The files the session can see *)

\* The object s3://student-performance-app-files/StudentPerformanceFactors.csv
S3Object ==
    [malformed |-> FALSE,
     columns |-> << Col("Hours_Studied", "int64"),
                    Col("Parental_Involvement", "object"),
                    Col("Access_to_Resources", "object"),
                    Col("Sleep_Hours", "int64"),
                    Col("Exam_Score", "int64") >>,
     records |-> <<
        [Hours_Studied |-> 1, Parental_Involvement |-> "Low",
         Access_to_Resources |-> "Low", Sleep_Hours |-> 8, Exam_Score |-> 55],
        [Hours_Studied |-> 2, Parental_Involvement |-> "High",
         Access_to_Resources |-> "Low", Sleep_Hours |-> 7, Exam_Score |-> 65],
        [Hours_Studied |-> 3, Parental_Involvement |-> "Low",
         Access_to_Resources |-> "High", Sleep_Hours |-> 6, Exam_Score |-> 75],
        [Hours_Studied |-> 4, Parental_Involvement |-> "Low",
         Access_to_Resources |-> "Low", Sleep_Hours |-> 7, Exam_Score |-> 95] >>]

\* A well-formed upload with a missing value in a numeric column
ScoresCsv ==
    [malformed |-> FALSE,
     columns |-> << Col("Gender", "object"),
                    Col("Tutoring_Sessions", "float64"),
                    Col("Exam_Score", "int64") >>,
     records |-> <<
        [Gender |-> "Female", Tutoring_Sessions |-> 1,   Exam_Score |-> 60],
        [Gender |-> "Male",   Tutoring_Sessions |-> NaN, Exam_Score |-> 89],
        [Gender |-> "Female", Tutoring_Sessions |-> 3,   Exam_Score |-> 90] >>]

\* A well-formed upload without the outcome column
NoScoreCsv ==
    [malformed |-> FALSE,
     columns |-> << Col("Gender", "object"),
                    Col("Hours_Studied", "int64"),
                    Col("Sleep_Hours", "int64") >>,
     records |-> <<
        [Gender |-> "Female", Hours_Studied |-> 5, Sleep_Hours |-> 7],
        [Gender |-> "Male",   Hours_Studied |-> 6, Sleep_Hours |-> 8] >>]

\* A well-formed upload that already has a column named Performance_Category
LabelledCsv ==
    [malformed |-> FALSE,
     columns |-> << Col("Performance_Category", "object"),
                    Col("Exam_Score", "int64") >>,
     records |-> <<
        [Performance_Category |-> "Pass", Exam_Score |-> 72],
        [Performance_Category |-> "Fail", Exam_Score |-> 40] >>]

\* A well-formed upload with four text columns, the second with ten distinct values
WideCsv ==
    [malformed |-> FALSE,
     columns |-> << Col("School_Type", "object"),
                    Col("Student_Id", "object"),
                    Col("Gender", "object"),
                    Col("Internet_Access", "object"),
                    Col("Tutoring_Sessions", "int64"),
                    Col("Exam_Score", "int64") >>,
     records |-> <<
        [School_Type |-> "Public",  Student_Id |-> "S0", Gender |-> "Female",
         Internet_Access |-> "Yes", Tutoring_Sessions |-> 1, Exam_Score |-> 59],
        [School_Type |-> "Private", Student_Id |-> "S1", Gender |-> "Male",
         Internet_Access |-> "No",  Tutoring_Sessions |-> 1, Exam_Score |-> 60],
        [School_Type |-> "Public",  Student_Id |-> "S2", Gender |-> "Male",
         Internet_Access |-> "Yes", Tutoring_Sessions |-> 2, Exam_Score |-> 69],
        [School_Type |-> "Public",  Student_Id |-> "S3", Gender |-> "Male",
         Internet_Access |-> "Yes", Tutoring_Sessions |-> 3, Exam_Score |-> 70],
        [School_Type |-> "Private", Student_Id |-> "S4", Gender |-> "Male",
         Internet_Access |-> "No",  Tutoring_Sessions |-> 4, Exam_Score |-> 79],
        [School_Type |-> "Public",  Student_Id |-> "S5", Gender |-> "Male",
         Internet_Access |-> "Yes", Tutoring_Sessions |-> 4, Exam_Score |-> 80],
        [School_Type |-> "Private", Student_Id |-> "S6", Gender |-> "Male",
         Internet_Access |-> "Yes", Tutoring_Sessions |-> 6, Exam_Score |-> 89],
        [School_Type |-> "Public",  Student_Id |-> "S7", Gender |-> "Male",
         Internet_Access |-> "No",  Tutoring_Sessions |-> 7, Exam_Score |-> 90],
        [School_Type |-> "Private", Student_Id |-> "S8", Gender |-> "Male",
         Internet_Access |-> "Yes", Tutoring_Sessions |-> 9, Exam_Score |-> 100],
        [School_Type |-> "Public",  Student_Id |-> "S9", Gender |-> "Male",
         Internet_Access |-> "Yes", Tutoring_Sessions |-> 0, Exam_Score |-> 45] >>]

\* An upload pd.read_csv raises on
BadCsv == [malformed |-> TRUE, columns |-> <<>>, records |-> <<>>]

FileNames == {"scores.csv", "noscore.csv", "labelled.csv", "wide.csv", "bad.csv"}

\* Values of st.file_uploader: no upload, or one of the files
Uploads == {"none"} \cup FileNames

File(name) ==
    CASE name = "scores.csv"   -> ScoresCsv
      [] name = "noscore.csv"  -> NoScoreCsv
      [] name = "labelled.csv" -> LabelledCsv
      [] name = "wide.csv"     -> WideCsv
      [] name = "bad.csv"      -> BadCsv

S3Table == ReadCsv(S3Object)

----------------------------------------------------------------------------
(* Source Loader *)

\* load_data without the fall-through: a failed parse of the upload ends the load
LoadDataNoFallback(upload, s3_ok) ==
    IF upload # "none"
    THEN [value |-> IF File(upload).malformed THEN NoneData ELSE ReadCsv(File(upload)),
          io    |-> <<"read_csv">>]
    ELSE [value |-> IF s3_ok THEN S3Table ELSE NoneData, io |-> <<"get_object">>]

\* Body of load_data (lines 33-53).  s3_ok: s3.get_object and the parse of its
\* body succeed.  Returns the value and the I/O calls made.
LoadData(upload, s3_ok) ==
    IF upload # "none" /\ ~File(upload).malformed
    THEN [value |-> ReadCsv(File(upload)), io |-> <<"read_csv">>]
    ELSE LET tried == IF upload # "none" THEN <<"read_csv">> ELSE <<>>
         IN  [value |-> IF s3_ok THEN S3Table ELSE NoneData,
              io    |-> Append(tried, "get_object")]

\* load_data without @st.cache_data: the body runs on every call
NeverHit(store, upload) == FALSE

\* st.cache_data: the key is the content of the argument
CacheHit(store, upload) == upload \in DOMAIN store

\* load_data(uploaded_file) through @st.cache_data (lines 32, 67): a stored
\* value is returned (as a copy) without running the body; otherwise the body
\* runs and whatever it returns, None included, is stored.
CachedLoadData(store, upload, s3_ok) ==
    IF CacheHit(store, upload)
    THEN [value |-> store[upload], io |-> <<>>, store |-> store]
    ELSE LET r == LoadData(upload, s3_ok)
         IN  [value |-> r.value, io |-> r.io,
              store |-> [k \in DOMAIN store \cup {upload} |->
                            IF k = upload THEN r.value ELSE store[k]]]

----------------------------------------------------------------------------
(* Schema Introspector and Filter Engine (sidebar, lines 70-100) *)

Min(a, b) == IF a < b THEN a ELSE b

\* categorical_cols = data.select_dtypes(include=['object']).columns.tolist()
CategoricalCols(t) == SelectDtypes(t.columns, {"object"})

\* The slice taken one column longer, categorical_cols[:4]
FirstFourCategoricalCols(t) ==
    SubSeq(CategoricalCols(t), 1, Min(4, Len(CategoricalCols(t))))

\* categorical_cols[:3]
FirstCategoricalCols(t) ==
    SubSeq(CategoricalCols(t), 1, Min(3, Len(CategoricalCols(t))))

\* A column with exactly 10 distinct values counted as having few
FewCategoriesInclusive(t, col) == Cardinality(Unique(t, col)) <= 10

\* len(data[col].unique()) < 10
FewCategories(t, col) == Cardinality(Unique(t, col)) < 10

\* The columns that get a multiselect, in the order of the loop at line 78
RECURSIVE FilterableOf(_, _)
FilterableOf(t, cols) ==
    IF cols = <<>> THEN <<>>
    ELSE LET rest == FilterableOf(t, Tail(cols))
         IN  IF FewCategories(t, Head(cols)) THEN <<Head(cols)>> \o rest ELSE rest

FilterableCols(t) == FilterableOf(t, FirstCategoricalCols(t))

\* options=sorted(data[col].unique()), as a set
Options(t, col) == Unique(t, col)

\* filter_selections (lines 77-84): one entry per multiselect, holding the
\* widget's value; chosen maps a column to the widget's value.
BuildSelections(t, chosen) ==
    LET cols == FilterableCols(t)
    IN  [i \in DOMAIN cols |-> [col |-> cols[i], values |-> chosen[cols[i]]]]

\* A DataFrame variable: the table it holds and whether it is the very object
\* the variable `data` names.
Frame(t, same) == [table |-> t, isData |-> same]

\* filtered_data = data.copy()  (line 87)
DataCopy(t) == Frame(t, FALSE)

\* The rows that pass, last row first
IsInReversed(frame, col, selected) ==
    LET kept == SelectSeq(frame.table.rows, LAMBDA r : r.cells[col] \in selected)
    IN  Frame([frame.table EXCEPT !.rows =
                   [i \in DOMAIN kept |-> kept[Len(kept) + 1 - i]]],
              FALSE)

\* filtered_data[filtered_data[col].isin(selected_values)]: a new frame with
\* the rows that pass, in their order and with their index
IsIn(frame, col, selected) ==
    Frame([frame.table EXCEPT !.rows =
               SelectSeq(frame.table.rows, LAMBDA r : r.cells[col] \in selected)],
          FALSE)

\* The filters combined by OR: a row stays if it passes any non-empty selection
FilterLoopAny(frame, selections) ==
    IF \A k \in DOMAIN selections : selections[k].values = {} THEN frame
    ELSE Frame([frame.table EXCEPT !.rows =
                   SelectSeq(frame.table.rows,
                             LAMBDA r : \E k \in DOMAIN selections :
                                 r.cells[selections[k].col] \in selections[k].values)],
               FALSE)

\* The loop of lines 88-90 over filter_selections.items()
RECURSIVE FilterLoop(_, _)
FilterLoop(frame, selections) ==
    IF selections = <<>> THEN frame
    ELSE LET s == Head(selections)
         IN  FilterLoop(IF s.values # {} THEN IsIn(frame, s.col, s.values) ELSE frame,
                        Tail(selections))

\* Lines 86-90
ApplyFilters(t, selections) == FilterLoop(DataCopy(t), selections)

\* Line 93: the filter summary is shown
FilterSummaryShown(t, filtered) == Len(filtered.rows) # Len(t.rows)

----------------------------------------------------------------------------
(* Derived Metrics Engine *)

HasScore(t) == "Exam_Score" \in ColumnNames(t)

DtypeOf(t, col) == t.columns[CHOOSE i \in DOMAIN t.columns : t.columns[i].name = col].dtype

\* Series.isnull() of one cell: only numeric columns hold NaN
IsNull(t, col, v) == DtypeOf(t, col) # "object" /\ v = NaN

\* The non-null values of a column, in row order
Values(t, col) ==
    LET all == [i \in DOMAIN t.rows |-> t.rows[i].cells[col]]
    IN  SelectSeq(all, LAMBDA v : ~IsNull(t, col, v))

\* filtered_data.isnull().sum() of one column
MissingCount(t, col) == Len(t.rows) - Len(Values(t, col))

\* missing_df[missing_df['Missing Values'] > 0] (lines 136-142)
MissingRows(t) == {c \in ColumnNames(t) : MissingCount(t, c) > 0}

\* The five labels, in the display order of line 205
ExcellentLabel == "Excellent (90-100)"
VeryGoodLabel == "Very Good (80-89)"
GoodLabel == "Good (70-79)"
SatisfactoryLabel == "Satisfactory (60-69)"
NeedsImprovementLabel == "Needs Improvement (<60)"

\* categorize_performance with > for >=
CategorizeStrict(sc) ==
    IF sc > 90 THEN ExcellentLabel
    ELSE IF sc > 80 THEN VeryGoodLabel
    ELSE IF sc > 70 THEN GoodLabel
    ELSE IF sc > 60 THEN SatisfactoryLabel
    ELSE NeedsImprovementLabel

\* categorize_performance (lines 189-199).  Every comparison with NaN is false.
CategorizePerformance(sc) ==
    IF sc # NaN /\ sc >= 90 THEN ExcellentLabel
    ELSE IF sc # NaN /\ sc >= 80 THEN VeryGoodLabel
    ELSE IF sc # NaN /\ sc >= 70 THEN GoodLabel
    ELSE IF sc # NaN /\ sc >= 60 THEN SatisfactoryLabel
    ELSE NeedsImprovementLabel

\* filtered_data['Performance_Category'] =
\*     filtered_data['Exam_Score'].apply(categorize_performance)   (line 201)
\* A column of that name is replaced where it stands, otherwise the column is
\* appended.
AddPerformanceCategory(t) ==
    [t EXCEPT
        !.columns = IF "Performance_Category" \in ColumnNames(t)
                    THEN [i \in DOMAIN t.columns |->
                             IF t.columns[i].name = "Performance_Category"
                             THEN Col("Performance_Category", "object")
                             ELSE t.columns[i]]
                    ELSE Append(t.columns, Col("Performance_Category", "object")),
        !.rows = [i \in DOMAIN t.rows |->
                     [t.rows[i] EXCEPT !.cells =
                         [c \in DOMAIN t.rows[i].cells \cup {"Performance_Category"} |->
                             IF c = "Performance_Category"
                             THEN CategorizePerformance(t.rows[i].cells["Exam_Score"])
                             ELSE t.rows[i].cells[c]]]]]

\* numerical_cols (lines 265-266)
RECURSIVE Without(_, _)
Without(names, x) ==
    IF names = <<>> THEN <<>>
    ELSE IF Head(names) = x THEN Without(Tail(names), x)
    ELSE <<Head(names)>> \o Without(Tail(names), x)

NumericalCols(t) == Without(SelectDtypes(t.columns, {"int64", "float64"}), "Exam_Score")

----------------------------------------------------------------------------
(* Pearson correlation.  A coefficient is kept exactly, as num / sqrt(den2). *)

NaNCorr == [nan |-> TRUE, num |-> 0, den2 |-> 1]

RECURSIVE SumSeq(_)
SumSeq(s) == IF s = <<>> THEN 0 ELSE Head(s) + SumSeq(Tail(s))

\* Series.corr: the rows where either value is missing are dropped; the result
\* is NaN with fewer than two rows left or with a column of zero variance
Corr(t, a, b) ==
    LET both == SelectSeq(t.rows, LAMBDA r : ~IsNull(t, a, r.cells[a])
                                          /\ ~IsNull(t, b, r.cells[b]))
        n  == Len(both)
        x  == [i \in DOMAIN both |-> both[i].cells[a]]
        y  == [i \in DOMAIN both |-> both[i].cells[b]]
        sx == SumSeq(x)
        sy == SumSeq(y)
        vx == n * SumSeq([i \in DOMAIN both |-> x[i] * x[i]]) - sx * sx
        vy == n * SumSeq([i \in DOMAIN both |-> y[i] * y[i]]) - sy * sy
        cv == n * SumSeq([i \in DOMAIN both |-> x[i] * y[i]]) - sx * sy
    IN  IF n < 2 \/ vx = 0 \/ vy = 0 THEN NaNCorr
        ELSE [nan |-> FALSE, num |-> cv, den2 |-> vx * vy]

Sgn(n) == IF n > 0 THEN 1 ELSE IF n < 0 THEN -1 ELSE 0

\* c > 0, c < 0: false for NaN
Positive(c) == ~c.nan /\ c.num > 0
Negative(c) == ~c.nan /\ c.num < 0

\* a/b < c/d for a, c >= 0 and b, d > 0, by integer parts and remainders, so
\* that no product is formed
RECURSIVE RatLess(_, _, _, _)
RatLess(a, b, c, d) ==
    IF a \div b # c \div d THEN a \div b < c \div d
    ELSE IF c % d = 0 THEN FALSE
    ELSE IF a % b = 0 THEN TRUE
    ELSE RatLess(d, c % d, b, a % b)

\* a < b for two defined coefficients: by sign, then by the squares num^2 / den2
CorrLess(a, b) ==
    IF Sgn(a.num) # Sgn(b.num) THEN Sgn(a.num) < Sgn(b.num)
    ELSE IF Sgn(a.num) > 0 THEN RatLess(a.num * a.num, a.den2, b.num * b.num, b.den2)
    ELSE IF Sgn(a.num) < 0 THEN RatLess(b.num * b.num, b.den2, a.num * a.num, a.den2)
    ELSE FALSE

\* abs(corr) >= 0.5 (line 434): false for NaN
Strong(c) == ~c.nan /\ 4 * c.num * c.num >= c.den2

\* Lines 273-276
Correlations(t, numerical) ==
    [i \in DOMAIN numerical |->
        [Factor |-> numerical[i], Correlation |-> Corr(t, numerical[i], "Exam_Score")]]

\* e goes before f in sort_values('Correlation', ascending): NaN goes last
Before(e, f, ascending) ==
    IF e.Correlation.nan THEN FALSE
    ELSE IF f.Correlation.nan THEN TRUE
    ELSE IF ascending THEN CorrLess(e.Correlation, f.Correlation)
    ELSE CorrLess(f.Correlation, e.Correlation)

\* Insert e into the sorted sequence s behind every entry it does not go before
RECURSIVE Insert(_, _, _)
Insert(s, e, ascending) ==
    IF s = <<>> THEN <<e>>
    ELSE IF Before(e, Head(s), ascending) THEN <<e>> \o s
    ELSE <<Head(s)>> \o Insert(Tail(s), e, ascending)

\* DataFrame.sort_values('Correlation', ascending=...): entries with equal
\* coefficients keep their order
RECURSIVE SortValues(_, _)
SortValues(s, ascending) ==
    IF s = <<>> THEN <<>>
    ELSE Insert(SortValues(SubSeq(s, 1, Len(s) - 1), ascending), s[Len(s)], ascending)

\* DataFrame.head(n)
HeadN(s, n) == SubSeq(s, 1, Min(n, Len(s)))

\* corr_df (lines 278-279)
CorrDf(corrs) == SortValues(corrs, FALSE)

\* top_positive (line 359)
TopPositive(df) == HeadN(SelectSeq(df, LAMBDA e : Positive(e.Correlation)), 3)

\* top_negative without its sort_values: the first 3 negatives of corr_df
TopNegativeUnsorted(df) == HeadN(SelectSeq(df, LAMBDA e : Negative(e.Correlation)), 3)

\* top_negative (line 360)
TopNegative(df) ==
    HeadN(SortValues(SelectSeq(df, LAMBDA e : Negative(e.Correlation)), TRUE), 3)

\* strong_correlations is non-empty (lines 429-442)
AnyStrongPair(t, numerical) ==
    \E i \in DOMAIN numerical : \E j \in DOMAIN numerical :
        i < j /\ Strong(Corr(t, numerical[i], numerical[j]))

----------------------------------------------------------------------------
(* The four tabs (lines 103-455).  Each view is recorded by what it rendered:
   "value"    a metric, table or chart computed from at least one row
   "nan"      a metric or chart rendered from undefined (NaN) numbers only
   "empty"    a table or chart with no rows
   "msg:..."  a text shown in place of the view
   "omitted"  nothing: the view's condition was false
   "not_reached"  the run ended in an exception before the view
   "skipped"  the main content did not run (no data)                        *)

Tab1Views == {"average_score", "pass_rate", "total_students", "score_range",
              "data_preview", "data_quality", "column_information"}
Tab2Views == {"score_distribution", "performance_categories",
              "performance_across_categories", "score_by_category"}
Tab3Views == {"factor_correlation", "factor_scatter", "key_insights"}
Tab4Views == {"multi_factor", "correlation_matrix", "strong_pairs"}
ViewNames == Tab1Views \cup Tab2Views \cup Tab3Views \cup Tab4Views

\* A chart or table drawn from the frame
Drawn(t) == IF Len(t.rows) > 0 THEN "value" ELSE "empty"

\* A number aggregated from the non-null values of a column (mean, min, max)
Aggregated(t, col) == IF Len(Values(t, col)) > 0 THEN "value" ELSE "nan"

\* Tab 1 (lines 108-167)
Tab1(f, details) ==
    [v \in Tab1Views |->
        CASE v = "average_score" ->
                IF HasScore(f) THEN Aggregated(f, "Exam_Score") ELSE "omitted"
          [] v = "pass_rate" ->
                \* the mean of a boolean column: NaN only without rows
                IF HasScore(f) THEN (IF Len(f.rows) > 0 THEN "value" ELSE "nan")
                ELSE "omitted"
          [] v = "total_students" -> "value"
          [] v = "score_range" ->
                IF HasScore(f) THEN Aggregated(f, "Exam_Score") ELSE "omitted"
          [] v = "data_preview" -> Drawn(f)
          [] v = "data_quality" ->
                IF MissingRows(f) # {} THEN "value" ELSE "msg:no_missing_values"
          [] v = "column_information" ->
                IF details THEN "value" ELSE "omitted"]

\* Tab 2 (lines 170-256); f is filtered_data after line 201, cats is
\* categorical_cols; each selectbox holds its first option
Tab2(f, cats) ==
    [v \in Tab2Views |->
        CASE v = "score_distribution" ->
                IF HasScore(f) THEN Drawn(f) ELSE "omitted"
          [] v = "performance_categories" ->
                IF HasScore(f) THEN Drawn(f) ELSE "omitted"
          [] v = "performance_across_categories" ->
                IF CategoricalCols(f) # <<>> /\ HasScore(f) THEN Drawn(f)
                ELSE "omitted"
          [] v = "score_by_category" ->
                IF HasScore(f) /\ Len(cats) > 0
                THEN (IF Cardinality(Unique(f, cats[1])) <= 10 THEN Drawn(f)
                      ELSE "msg:too_many_unique_values")
                ELSE "omitted"]

\* Tab 3 (lines 259-374) when Exam_Score is a column
Tab3(f, numerical, df, pos, neg) ==
    [v \in Tab3Views |->
        CASE v = "factor_correlation" ->
                IF numerical # <<>>
                THEN (IF \E i \in DOMAIN df : ~df[i].Correlation.nan THEN "value"
                      ELSE "nan")
                ELSE "omitted"
          [] v = "factor_scatter" ->
                IF numerical # <<>> THEN Drawn(f) ELSE "omitted"
          [] v = "key_insights" ->
                IF numerical # <<>> /\ Len(df) > 0
                THEN (IF pos = <<>> /\ neg = <<>> THEN "msg:no_negative_correlations"
                      ELSE "value")
                ELSE "omitted"]

\* Tab 4 (lines 377-455) when numerical_cols is defined
Tab4(f, numerical, cats, details) ==
    [v \in Tab4Views |->
        CASE v = "multi_factor" ->
                IF Len(numerical) > 1 /\ Len(cats) > 0 THEN Drawn(f)
                ELSE "msg:not_enough_variables"
          [] v = "correlation_matrix" ->
                IF Len(numerical) > 1
                THEN (IF Len(f.rows) > 1 THEN "value" ELSE "nan")
                ELSE "msg:not_enough_variables"
          [] v = "strong_pairs" ->
                IF details /\ Len(numerical) > 1
                THEN (IF AnyStrongPair(f, numerical) THEN "value"
                      ELSE "msg:no_strong_correlations")
                ELSE "omitted"]

\* The guards of lines 70 and 103 left out
DataLoadedAlways(t) == TRUE

\* `if data is not None` (line 70), `if filtered_data is not None` (line 103)
DataLoaded(t) == ~t.isNone

\* numerical_cols is bound only inside `if 'Exam_Score' in filtered_data.columns`
\* (lines 263-266); line 384 reads it unconditionally
NumericalColsBound(f) == HasScore(f)

\* Lines 187-201: filtered_data once tab 2 has run
AfterTab2(f0) == IF HasScore(f0) THEN AddPerformanceCategory(f0) ELSE f0

\* `data` at the end of the run: line 201 assigns into the object filtered_data
\* names, which changes `data` too if both name one object
DataAfterRun(t, frame, f) == IF frame.isData THEN f ELSE t

\* correlations (lines 263-276), [] where the block does not run
CorrelationsOf(f) ==
    IF HasScore(f) /\ NumericalCols(f) # <<>>
    THEN Correlations(f, NumericalCols(f)) ELSE <<>>

\* What the four tabs render.  f0 is filtered_data as the sidebar left it, f is
\* filtered_data after line 201, cats is categorical_cols.
Render(f0, f, cats, details, df, pos, neg) ==
    LET num == IF NumericalColsBound(f) THEN NumericalCols(f) ELSE <<>>
    IN  [v \in ViewNames |->
            IF v \in Tab1Views THEN Tab1(f0, details)[v]
            ELSE IF v \in Tab2Views THEN Tab2(f, cats)[v]
            ELSE IF v \in Tab3Views
                 THEN (IF HasScore(f) THEN Tab3(f, num, df, pos, neg)[v] ELSE "omitted")
            ELSE IF NumericalColsBound(f) THEN Tab4(f, num, cats, details)[v]
            ELSE "not_reached"]

\* The exception that ends the run: the NameError of line 384
Raised(f) == IF NumericalColsBound(f) THEN "none" ELSE "NameError"

----------------------------------------------------------------------------
(* One run of the script *)

\* The value a multiselect holds when the script reaches it: a widget without
\* a key is identified by its label and options, so it keeps its value from the
\* previous run only if that run drew it with the same options; otherwise it
\* holds its default, [].
Persisted(col, t) ==
    IF \E i \in DOMAIN filter_selections :
           filter_selections[i].col = col /\ Options(data, col) = Options(t, col)
    THEN filter_selections[CHOOSE i \in DOMAIN filter_selections :
                               filter_selections[i].col = col].values
    ELSE {}

\* The outcomes s3.get_object can have in a run: it is called only on a miss
S3Outcomes(upload) == IF CacheHit(cache, upload) THEN {TRUE} ELSE BOOLEAN

\* The script, lines 56-461, run with the uploader holding upload, the widgets
\* named in changed set to the given values and the checkbox to details.
Run(upload, changed, details, s3_ok) ==
    LET ld      == CachedLoadData(cache, upload, s3_ok)
        fetched == \E i \in DOMAIN ld.io : ld.io[i] = "get_object"
    IN  /\ s3_calls < MaxS3Calls
        /\ uploaded_file' = upload
        /\ ran' = TRUE
        /\ cache' = ld.store
        /\ io' = ld.io
        /\ s3_calls' = IF fetched THEN s3_calls + 1 ELSE s3_calls
        /\ s3_result' = IF fetched
                        THEN [s3_result EXCEPT
                                 ![upload] = Append(@, IF s3_ok THEN "ok" ELSE "fail")]
                        ELSE s3_result
        /\ UNCHANGED <<score, category>>
        /\ IF DataLoaded(ld.value)
           THEN /\ categorical_cols' = CategoricalCols(ld.value)
                /\ filter_selections' =
                       BuildSelections(ld.value,
                           [c \in Range(FilterableCols(ld.value)) |->
                               IF c \in DOMAIN changed THEN changed[c]
                               ELSE Persisted(c, ld.value)])
                /\ filter_result' = ApplyFilters(ld.value, filter_selections').table
                /\ messages' = IF FilterSummaryShown(ld.value, filter_result')
                               THEN {"filter_summary"} ELSE {}
                /\ show_details' = details
                /\ filtered_data' = AfterTab2(filter_result')
                /\ data' = DataAfterRun(ld.value,
                                        ApplyFilters(ld.value, filter_selections'),
                                        filtered_data')
                /\ correlations' = CorrelationsOf(filtered_data')
                /\ corr_df' = CorrDf(correlations')
                /\ top_positive' = IF Len(corr_df') > 0 THEN TopPositive(corr_df') ELSE <<>>
                /\ top_negative' = IF Len(corr_df') > 0 THEN TopNegative(corr_df') ELSE <<>>
                /\ views' = Render(filter_result', filtered_data', categorical_cols',
                                   details, corr_df', top_positive', top_negative')
                /\ error' = Raised(filtered_data')
           ELSE /\ categorical_cols' = <<>>
                /\ filter_selections' = <<>>
                /\ filter_result' = NoneData
                /\ messages' = {"no_data_warning"}
                /\ show_details' = FALSE
                /\ data' = ld.value
                /\ filtered_data' = NoneData
                /\ correlations' = <<>>
                /\ corr_df' = <<>>
                /\ top_positive' = <<>>
                /\ top_negative' = <<>>
                /\ views' = [v \in ViewNames |-> "skipped"]
                /\ error' = "none"

NoChange == [c \in {} |-> {}]

\* The session opens: the script runs with every widget at its default
FirstRun ==
    /\ ~ran
    /\ \E s3_ok \in S3Outcomes("none") : Run("none", NoChange, FALSE, s3_ok)

\* The user uploads a file, replaces it or removes it
ChangeUpload ==
    /\ ran
    /\ \E upload \in Uploads \ {uploaded_file} : \E s3_ok \in S3Outcomes(upload) :
           Run(upload, NoChange, show_details, s3_ok)

\* The user changes one multiselect
ChangeFilter ==
    /\ ran
    /\ DataLoaded(data)
    /\ \E i \in DOMAIN filter_selections :
         \E chosen \in SUBSET Options(data, filter_selections[i].col) :
           /\ chosen # filter_selections[i].values
           /\ \E s3_ok \in S3Outcomes(uploaded_file) :
                Run(uploaded_file, [c \in {filter_selections[i].col} |-> chosen],
                    show_details, s3_ok)

\* The user ticks or unticks "Show detailed statistics"
ToggleDetails ==
    /\ ran
    /\ DataLoaded(data)
    /\ \E s3_ok \in S3Outcomes(uploaded_file) : Run(uploaded_file, NoChange, ~show_details, s3_ok)

\* Before the first run
InitSession ==
    /\ uploaded_file = "none"
    /\ show_details = FALSE
    /\ ran = FALSE
    /\ cache = [k \in {} |-> NoneData]
    /\ s3_result = [k \in Uploads |-> <<>>]
    /\ s3_calls = 0
    /\ io = <<>>
    /\ data = NoneData
    /\ categorical_cols = <<>>
    /\ filter_selections = <<>>
    /\ filter_result = NoneData
    /\ filtered_data = NoneData
    /\ corr_df = <<>>
    /\ top_positive = <<>>
    /\ top_negative = <<>>
    /\ views = [v \in ViewNames |-> "skipped"]
    /\ messages = {}
    /\ error = "none"

Init ==
    /\ InitSession
    /\ correlations = <<>>
    /\ score = 0
    /\ category = ""

Next == FirstRun \/ ChangeUpload \/ ChangeFilter \/ ToggleDetails

Spec == Init /\ [][Next]_vars

----------------------------------------------------------------------------
(* categorize_performance on its own: every score of 0..MaxScore *)

InitCategorize ==
    /\ InitSession
    /\ correlations = <<>>
    /\ score \in 0..MaxScore
    /\ category = ""

Categorize ==
    /\ category = ""
    /\ category' = CategorizePerformance(score)
    /\ UNCHANGED <<uploaded_file, show_details, ran, cache, s3_result, s3_calls, io,
                   data, categorical_cols, filter_selections, filter_result,
                   filtered_data, correlations, corr_df, top_positive, top_negative,
                   views, messages, error, score>>

NextCategorize == Categorize

SpecCategorize == InitCategorize /\ [][NextCategorize]_vars

----------------------------------------------------------------------------
(* The Key Insights block on its own: every correlation list of up to
   MaxFactors factors over a few coefficients *)

FactorNames == <<"Hours_Studied", "Attendance", "Sleep_Hours", "Previous_Scores",
                 "Tutoring_Sessions", "Physical_Activity">>

\* -1, -0.5, 0, 0.5, 1, -0.447.., 0.447.. and NaN
Coefficients ==
    {[nan |-> FALSE, num |-> n, den2 |-> 4] : n \in -2..2}
        \cup {[nan |-> FALSE, num |-> n, den2 |-> 5] : n \in {-1, 1}}
        \cup {NaNCorr}

CorrelationLists ==
    UNION {{[i \in 1..n |-> [Factor |-> FactorNames[i], Correlation |-> cs[i]]] :
               cs \in [1..n -> Coefficients]} : n \in 1..MaxFactors}

InitInsights ==
    /\ InitSession
    /\ correlations \in CorrelationLists
    /\ score = 0
    /\ category = ""

\* Lines 278-279 and 358-360
KeyInsights ==
    /\ corr_df = <<>>
    /\ Len(correlations) > 0
    /\ corr_df' = CorrDf(correlations)
    /\ top_positive' = TopPositive(CorrDf(correlations))
    /\ top_negative' = TopNegative(CorrDf(correlations))
    /\ UNCHANGED <<uploaded_file, show_details, ran, cache, s3_result, s3_calls, io,
                   data, categorical_cols, filter_selections, filter_result,
                   filtered_data, correlations, views, messages, error, score,
                   category>>

NextInsights == KeyInsights

SpecInsights == InitInsights /\ [][NextInsights]_vars

----------------------------------------------------------------------------
(* Properties *)

Last(s) == s[Len(s)]

\* The last run loaded a dataset
HaveData == ~data.isNone

\* Row i of the Raw Dataset is among the rows the filter loop returned
Retained(i) ==
    \E j \in DOMAIN filter_result.rows :
        filter_result.rows[j].index = data.rows[i].index

\* Row i passes every non-empty selection
PassesAll(i) ==
    \A k \in DOMAIN filter_selections :
        filter_selections[k].values # {} =>
            data.rows[i].cells[filter_selections[k].col] \in filter_selections[k].values

\* C1: a row of the Raw Dataset is in the Filtered Dataset if and only if, for
\* every column whose chosen-values set is non-empty, the row's value in that
\* column is in the set; empty sets and unselected columns do not constrain,
\* so with every selection empty all rows are retained.
C1_FilterMembership ==
    (ran /\ HaveData) =>
        /\ \A i \in DOMAIN data.rows : Retained(i) <=> PassesAll(i)
        /\ (\A k \in DOMAIN filter_selections : filter_selections[k].values = {})
               => Len(filter_result.rows) = Len(data.rows)

\* Two columns carry a non-empty selection, some row passes both and some row
\* passes only one of them
C1_Witness ==
    /\ ran /\ HaveData
    /\ Cardinality({k \in DOMAIN filter_selections :
                        filter_selections[k].values # {}}) = 2
    /\ \E i \in DOMAIN data.rows : Retained(i)
    /\ \E i \in DOMAIN data.rows :
         /\ ~Retained(i)
         /\ \E k \in DOMAIN filter_selections :
              /\ filter_selections[k].values # {}
              /\ data.rows[i].cells[filter_selections[k].col]
                     \in filter_selections[k].values

\* Position in the Raw Dataset of a row of the filter's result
RawPosition(r) == CHOOSE i \in DOMAIN data.rows : data.rows[i] = r

\* C2: the Filtered Dataset the filter loop produces is an order-preserving
\* sub-sequence of the Raw Dataset's rows: no more rows than the Raw Dataset,
\* every row identical to a Raw Dataset row, the rows in their original
\* relative order, and exactly the Raw Dataset's columns.
C2_FilteredIsSubsequence ==
    (ran /\ HaveData) =>
        /\ Len(filter_result.rows) <= Len(data.rows)
        /\ filter_result.columns = data.columns
        /\ \A j \in DOMAIN filter_result.rows :
               \E i \in DOMAIN data.rows : data.rows[i] = filter_result.rows[j]
        /\ \A j \in DOMAIN filter_result.rows : \A k \in DOMAIN filter_result.rows :
               j < k => RawPosition(filter_result.rows[j])
                            < RawPosition(filter_result.rows[k])

\* A filter kept at least two rows and dropped one that stood between them
C2_Witness ==
    /\ ran /\ HaveData
    /\ \E j \in DOMAIN filter_result.rows :
         /\ j + 1 \in DOMAIN filter_result.rows
         /\ filter_result.rows[j + 1].index > filter_result.rows[j].index + 1

\* The last s3.get_object made for the current upload input
LastS3Result == Last(s3_result[uploaded_file])

UploadParses == uploaded_file # "none" /\ ~File(uploaded_file).malformed

\* C3: load_data returns the upload's table, without reading the remote store,
\* when an upload is given and parses; it falls through to the remote source
\* when the upload does not parse or none is given, and returns the remote
\* table if fetch and parse succeed; it returns no dataset only when the remote
\* fetch or parse fails.
C3_LoadContract ==
    ran =>
        /\ UploadParses =>
              /\ data = ReadCsv(File(uploaded_file))
              /\ s3_result[uploaded_file] = <<>>
              /\ \A i \in DOMAIN io : io[i] # "get_object"
        /\ ~UploadParses =>
              /\ s3_result[uploaded_file] # <<>>
              /\ LastS3Result = "ok" => data = S3Table
        /\ ~HaveData =>
              /\ s3_result[uploaded_file] # <<>>
              /\ LastS3Result = "fail"

\* A malformed upload was given and the remote table was loaded in its place
C3_Witness ==
    /\ ran
    /\ uploaded_file = "bad.csv"
    /\ io = <<"read_csv", "get_object">>
    /\ HaveData
    /\ data = S3Table

\* C4: when the loader returns no dataset nothing downstream runs -- no column
\* classification, no filtering, no metric, correlation or insight -- and the
\* "no data" warning is shown; downstream stages run only with a dataset.
C4_NoDataSkipsDownstream ==
    ran =>
        /\ ~HaveData =>
              /\ \A v \in ViewNames : views[v] = "skipped"
              /\ categorical_cols = <<>>
              /\ filter_selections = <<>>
              /\ filter_result.isNone
              /\ filtered_data.isNone
              /\ correlations = <<>> /\ corr_df = <<>>
              /\ top_positive = <<>> /\ top_negative = <<>>
              /\ messages = {"no_data_warning"}
        /\ HaveData =>
              /\ "no_data_warning" \notin messages
              /\ ~filtered_data.isNone
              /\ \A v \in ViewNames : views[v] # "skipped"

\* The remote fetch failed and the run showed only the warning
C4_Witness ==
    /\ ran
    /\ ~HaveData
    /\ LastS3Result = "fail"
    /\ "no_data_warning" \in messages
    /\ \A v \in ViewNames : views[v] = "skipped"

\* The views that read the outcome column
OutcomeViews == {"average_score", "pass_rate", "score_range", "score_distribution",
                 "performance_categories", "performance_across_categories",
                 "score_by_category", "factor_correlation", "factor_scatter",
                 "key_insights"}

\* C5: when the dataset has no Exam_Score column every view that depends on it
\* is omitted, every other view (total row count, data preview, missingness,
\* the multi-factor and correlation-matrix views of tab 4) still completes and
\* the run does not end in an unhandled error.
C5_MissingOutcomeDegrades ==
    (ran /\ HaveData /\ ~HasScore(data)) =>
        /\ error = "none"
        /\ \A v \in OutcomeViews : views[v] = "omitted"
        /\ views["total_students"] = "value"
        /\ views["data_preview"] \in {"value", "empty"}
        /\ views["data_quality"] \in {"value", "msg:no_missing_values"}
        /\ views["multi_factor"] \in {"value", "empty", "msg:not_enough_variables"}
        /\ views["correlation_matrix"] \in {"value", "nan", "msg:not_enough_variables"}

\* The metric queries of the claim
MetricViews == {"average_score", "pass_rate", "score_range", "data_quality",
                "performance_across_categories", "factor_correlation",
                "correlation_matrix", "key_insights"}

\* The selections exclude every row of a dataset that has rows and an outcome
AllRowsExcluded ==
    /\ ran /\ HaveData /\ HasScore(data)
    /\ Len(data.rows) > 0
    /\ Len(filter_result.rows) = 0

\* C6: with a Filter Selection that excludes all rows the Filtered Dataset has
\* zero rows and every metric query returns the "insufficient data" fallback
\* rather than throwing or producing a computed value.
C6_EmptyFilterFallback ==
    AllRowsExcluded =>
        /\ Len(filtered_data.rows) = 0
        /\ error = "none"
        /\ \A v \in MetricViews : views[v] = "msg:insufficient_data"

Labels == {ExcellentLabel, VeryGoodLabel, GoodLabel, SatisfactoryLabel,
           NeedsImprovementLabel}

\* C7: categorize_performance returns, for every score, exactly one of the five
\* labels by the bands >= 90, 80..89, 70..79, 60..69, < 60; in particular 59,
\* 60, 69, 70, 79, 80, 89, 90, 100 get the labels of the boundary test.
C7_CategorizeBands ==
    category # "" =>
        /\ category \in Labels
        /\ score >= 90 => category = "Excellent (90-100)"
        /\ (80 <= score /\ score < 90) => category = "Very Good (80-89)"
        /\ (70 <= score /\ score < 80) => category = "Good (70-79)"
        /\ (60 <= score /\ score < 70) => category = "Satisfactory (60-69)"
        /\ score < 60 => category = "Needs Improvement (<60)"
        /\ score = 59 => category = "Needs Improvement (<60)"
        /\ score \in {60, 69} => category = "Satisfactory (60-69)"
        /\ score \in {70, 79} => category = "Good (70-79)"
        /\ score \in {80, 89} => category = "Very Good (80-89)"
        /\ score \in {90, 100} => category = "Excellent (90-100)"

\* The boundary score 90 has been categorized
C7_Witness == score = 90 /\ category = "Excellent (90-100)"

\* `data` is the table load_data returned for the current upload input
RawDatasetAsLoaded == (ran /\ HaveData) => data = cache[uploaded_file]

\* The derived column is on filtered_data whenever it is computed
DerivedColumnOnFiltered ==
    (ran /\ HaveData /\ HasScore(data)) =>
        "Performance_Category" \in ColumnNames(filtered_data)

\* Every column of the source has, in each row of filtered_data, the value the
\* Raw Dataset has in that row
NoSourceColumnOverwritten ==
    (ran /\ HaveData) =>
        \A j \in DOMAIN filtered_data.rows : \A c \in ColumnNames(data) :
            filtered_data.rows[j].cells[c]
                = data.rows[filtered_data.rows[j].index + 1].cells[c]

\* C8: after load the Raw Dataset is unchanged by filter changes and view
\* computations; the derived Performance Category column is attached only to
\* the Filtered Dataset, never stored back onto the Raw Dataset and never
\* overwrites a source column.
C8_RawDatasetUnchanged ==
    /\ RawDatasetAsLoaded
    /\ DerivedColumnOnFiltered
    /\ NoSourceColumnOverwritten

\* C9: loading is memoized per distinct input: while the upload input stays the
\* same no run fetches or parses again, and the remote fetch is made at most
\* once per input, so a new fetch or parse happens only when the input changes.
C9_LoadMemoized ==
    /\ [][(ran /\ uploaded_file' = uploaded_file)
              => (io' = <<>> /\ s3_calls' = s3_calls /\ s3_result' = s3_result)]_vars
    /\ [](\A k \in Uploads : Len(s3_result[k]) <= 1)

\* Without upload the remote table was fetched once, and a later run with a
\* filter set made no I/O
C9_Witness ==
    /\ ran
    /\ uploaded_file = "none"
    /\ Len(s3_result["none"]) = 1
    /\ s3_calls = 1
    /\ io = <<>>
    /\ \E k \in DOMAIN filter_selections : filter_selections[k].values # {}

PositiveEntries == {i \in DOMAIN correlations : Positive(correlations[i].Correlation)}
NegativeEntries == {i \in DOMAIN correlations : Negative(correlations[i].Correlation)}

\* s lists distinct entries of the Correlation Table
ListsEntries(s) ==
    /\ \A i \in DOMAIN s : \E k \in DOMAIN correlations : correlations[k] = s[i]
    /\ \A i \in DOMAIN s : \A j \in DOMAIN s : i # j => s[i].Factor # s[j].Factor

\* C10: the top-positive insights are the entries with correlation > 0, sorted
\* descending, cut to the first 3; the top-negative insights are the entries
\* with correlation < 0, sorted ascending, cut to the first 3; an entry whose
\* correlation is undefined or zero is in neither list.
C10_TopInsights ==
    corr_df # <<>> =>
        /\ ListsEntries(top_positive)
        /\ Len(top_positive) = Min(3, Cardinality(PositiveEntries))
        /\ \A i \in DOMAIN top_positive : Positive(top_positive[i].Correlation)
        /\ \A i \in DOMAIN top_positive : \A j \in DOMAIN top_positive :
               i < j => ~CorrLess(top_positive[i].Correlation,
                                  top_positive[j].Correlation)
        /\ \A k \in PositiveEntries :
               (\A i \in DOMAIN top_positive : top_positive[i] # correlations[k])
                   => \A i \in DOMAIN top_positive :
                          ~CorrLess(top_positive[i].Correlation,
                                    correlations[k].Correlation)
        /\ ListsEntries(top_negative)
        /\ Len(top_negative) = Min(3, Cardinality(NegativeEntries))
        /\ \A i \in DOMAIN top_negative : Negative(top_negative[i].Correlation)
        /\ \A i \in DOMAIN top_negative : \A j \in DOMAIN top_negative :
               i < j => ~CorrLess(top_negative[j].Correlation,
                                  top_negative[i].Correlation)
        /\ \A k \in NegativeEntries :
               (\A i \in DOMAIN top_negative : top_negative[i] # correlations[k])
                   => \A i \in DOMAIN top_negative :
                          ~CorrLess(correlations[k].Correlation,
                                    top_negative[i].Correlation)

\* Three negative factors of different strength next to an undefined one
C10_Witness ==
    /\ corr_df # <<>>
    /\ Cardinality(NegativeEntries) = 3
    /\ \E k \in DOMAIN correlations : correlations[k].Correlation.nan
    /\ Len(top_negative) = 3
    /\ CorrLess(top_negative[1].Correlation, top_negative[2].Correlation)
    /\ CorrLess(top_negative[2].Correlation, top_negative[3].Correlation)

\* The text-typed columns of the Raw Dataset, in its column order
TextColumns == SelectSeq(data.columns, LAMBDA c : c.dtype = "object")

\* The values the Raw Dataset holds in a column
Observed(col) == {data.rows[i].cells[col] : i \in DOMAIN data.rows}

\* C11: in every run the Filter Selection is well-formed: each of its keys is
\* a text-typed column of the Raw Dataset with fewer than 10 distinct values,
\* no column is keyed twice, and the values chosen for a column are a subset
\* of the values observed in that column of the Raw Dataset.
C11_SelectionWellFormed ==
    (ran /\ HaveData) =>
        /\ \A k \in DOMAIN filter_selections :
               /\ \E p \in DOMAIN TextColumns :
                      TextColumns[p].name = filter_selections[k].col
               /\ Cardinality(Observed(filter_selections[k].col)) < 10
               /\ filter_selections[k].values \subseteq
                      Observed(filter_selections[k].col)
        /\ \A k \in DOMAIN filter_selections : \A m \in DOMAIN filter_selections :
               filter_selections[k].col = filter_selections[m].col => k = m

\* A text column with exactly ten distinct values stands among the first
\* three and is left out, while a column next to it carries chosen values
C11_Witness ==
    /\ ran /\ HaveData
    /\ \E p \in DOMAIN TextColumns :
         /\ p <= 3
         /\ Cardinality(Observed(TextColumns[p].name)) = 10
         /\ \A k \in DOMAIN filter_selections :
                filter_selections[k].col # TextColumns[p].name
    /\ \E k \in DOMAIN filter_selections :
         /\ filter_selections[k].values # {}
         /\ filter_selections[k].values # Observed(filter_selections[k].col)

\* The names of the first three text-typed columns of the Raw Dataset
FirstThreeText == {TextColumns[p].name : p \in {q \in DOMAIN TextColumns : q <= 3}}

\* The names of the text-typed columns at position four or later
LaterText == {TextColumns[p].name : p \in {q \in DOMAIN TextColumns : q >= 4}}

\* Row i fails a non-empty selection made on one of the first three text columns
ExcludedByFirstThree(i) ==
    \E k \in DOMAIN filter_selections :
        /\ filter_selections[k].col \in FirstThreeText
        /\ filter_selections[k].values # {}
        /\ data.rows[i].cells[filter_selections[k].col]
               \notin filter_selections[k].values

\* C12: only the first three categorical columns, in the Raw Dataset's column
\* order, can carry a filter: a categorical column at position four or later
\* is never a key of the Filter Selection and never constrains the Filtered
\* Dataset (a row is left out only for failing a selection made on one of the
\* first three), even when the column has fewer than 10 distinct values.
C12_OnlyFirstThreeFilter ==
    (ran /\ HaveData) =>
        /\ \A k \in DOMAIN filter_selections :
               /\ filter_selections[k].col \in FirstThreeText
               /\ filter_selections[k].col \notin LaterText
        /\ \A i \in DOMAIN data.rows : ~Retained(i) => ExcludedByFirstThree(i)

\* The fourth text column has two distinct values and carries no filter,
\* while a filter on an earlier column keeps rows with each of its values
\* and drops others
C12_Witness ==
    /\ ran /\ HaveData
    /\ \E c \in LaterText :
         /\ Cardinality(Observed(c)) < 10
         /\ Cardinality(Observed(c)) > 1
         /\ \A k \in DOMAIN filter_selections : filter_selections[k].col # c
         /\ \A v \in Observed(c) :
                \E i \in DOMAIN data.rows :
                    Retained(i) /\ data.rows[i].cells[c] = v
    /\ \E i \in DOMAIN data.rows : ~Retained(i)

====
